---- MODULE Spec2Model ----
(***************************************************************************)
(* Model of the two prediction servers of the repository:                  *)
(*   src/unnamed/part_000  (manual weight loading, canvas preprocessing)   *)
(*   src/server.js         (tfjs-node file loader, Jimp preprocessing)     *)
(* Both declare the globals model / labels / solutions, an asynchronous    *)
(* initialize() started from the listen callback, and a POST /predict      *)
(* handler.  The variable `variant` says which of the two files runs.      *)
(***************************************************************************)
EXTENDS Integers, Sequences, FiniteSets, TLC

VARIABLES variant, disk, listening, initPc, initRuns, initError,
          model, modelsBuilt, labels, solutions, weightData, req

\* variant      which server file runs: "part_000" or "server"
\* disk         the files of MODEL_DIR (class_indices.json, diseaseInfo.json, model.json)
\* listening    app.listen has called back
\* initPc       the await initialize() is suspended at, or "idle"
\* initRuns     number of calls of initialize() so far
\* initError    what the catch block of initialize() caught, or "none"
\* model        the global model: 0 is undefined, n > 0 the n-th instance built
\* modelsBuilt  number of model instances tf.loadLayersModel has built
\* labels       the global labels
\* solutions    the global solutions
\* weightData   part_000: the weightData of modelIOHandler.load()
\* req          per request: position in the handler, upload, locals, response
vars == <<variant, disk, listening, initPc, initRuns, initError,
          model, modelsBuilt, labels, solutions, weightData, req>>

(***************************************************************************)
(* Bounds                                                                  *)
(***************************************************************************)
MaxRequests == 2
MaxLabels == 11
MaxInitRuns == 2

(***************************************************************************)
(* JavaScript values                                                       *)
(***************************************************************************)
Undefined == "<undefined>"
Null == "<null>"
Falsy(v) == v \in {Undefined, Null, ""}

RECURSIVE SeqSum(_)
SeqSum(s) == IF s = <<>> THEN 0 ELSE Head(s) + SeqSum(Tail(s))

RECURSIVE Flatten(_)
Flatten(ss) == IF ss = <<>> THEN <<>> ELSE Head(ss) \o Flatten(Tail(ss))

(***************************************************************************)
(* Files of MODEL_DIR, as the servers find them at start-up.               *)
(* A class-index file is the declaration-ordered list of its key/name      *)
(* pairs; a key is the digit string of a class index (train_model.js       *)
(* writes the keys 0..n-1).                                                *)
(***************************************************************************)
ClassNames == <<"Apple_scab", "Apple_rot", "Corn_rust", "Corn_blight",
                "Grape_rot", "Grape_esca", "Peach_spot", "Pepper_spot",
                "Potato_early", "Potato_late", "Tomato_blight", "Tomato_mold",
                "Tomato_virus", "Tomato_healthy">>

RECURSIVE Digits(_)
Digits(n) == IF n < 10 THEN <<n>> ELSE Digits(n \div 10) \o <<n % 10>>

RECURSIVE ToNumber(_)
ToNumber(d) == IF Len(d) = 0 THEN 0
               ELSE 10 * ToNumber(SubSeq(d, 1, Len(d) - 1)) + d[Len(d)]

\* class_indices.json as train_model.js writes it: classIndices[i] = label
trainClassIndices(n) == [i \in 1..n |-> [key |-> Digits(i - 1), name |-> ClassNames[i]]]

Reverse(s) == [i \in 1..Len(s) |-> s[Len(s) + 1 - i]]

NullNamed(s, k) == [i \in 1..Len(s) |-> IF ToNumber(s[i].key) = k
                                         THEN [s[i] EXCEPT !.name = Null] ELSE s[i]]

ClassFiles == {trainClassIndices(n) : n \in {0, 3, MaxLabels}}
              \cup {Reverse(trainClassIndices(n)) : n \in {3, MaxLabels}}
              \cup {NullNamed(Reverse(trainClassIndices(3)), 1)}

EmptyObject == [k \in {} |-> Undefined]

Catalogs == { EmptyObject,
              ("Apple_rot" :> [solution |-> "Prune cankers.", pesticide |-> "Captan."]),
              ("Apple_rot" :> [solution |-> "Prune cankers.", pesticide |-> Undefined])
                 @@ ("Corn_rust" :> [solution |-> "", pesticide |-> "Mancozeb."]) }

ShardFiles == ("group1-shard1of2.bin" :> <<7, 8>>) @@ ("group1-shard2of2.bin" :> <<9>>)

Manifests == { <<[paths |-> <<"group1-shard1of2.bin", "group1-shard2of2.bin">>]>>,
               <<[paths |-> <<"group1-shard2of2.bin", "group1-shard1of2.bin">>]>>,
               <<[paths |-> <<"group1-shard1of2.bin">>],
                 [paths |-> <<"group1-shard2of2.bin">>]>>,
               <<[paths |-> <<"group1-shard1of2.bin", "group1-shard3of3.bin">>]>>,
               <<>> }

File(c) == [state |-> "ok", content |-> c]
MissingFile(c) == [state |-> "missing", content |-> c]
MalformedFile(c) == [state |-> "malformed", content |-> c]

\* The model directory: every combination of the three files.
Disks == [classFile : {File(c) : c \in ClassFiles} \cup {MissingFile(<<>>)},
          infoFile : {File(c) : c \in Catalogs}
                     \cup {MissingFile(EmptyObject), MalformedFile(EmptyObject)},
          modelJson : {File(m) : m \in Manifests} \cup {MissingFile(<<>>)}]

\* Output vectors of the classifier, in units of 1e-5.
Peak(n) == [i \in 1..n |-> IF i = n THEN 99995 ELSE 0]
Outputs == { <<20000, 50000, 50000, 10000>>,
             <<33333, 33333, 33334>>,
             Peak(MaxLabels),
             Peak(MaxLabels + 1) }

(***************************************************************************)
(* initialize(): the label list                                            *)
(***************************************************************************)
\* JSON.parse of the class-index file.  The keys are integer indices, so the
\* object holds them in ascending index order whatever the file's order.
RECURSIVE InsertProperty(_, _)
InsertProperty(e, obj) ==
    IF obj = <<>> THEN <<e>>
    ELSE IF ToNumber(e.key) < ToNumber(Head(obj).key) THEN <<e>> \o obj
    ELSE IF ToNumber(e.key) = ToNumber(Head(obj).key) THEN <<e>> \o Tail(obj)
    ELSE <<Head(obj)>> \o InsertProperty(e, Tail(obj))

RECURSIVE JSONparse(_)
JSONparse(decl) == IF decl = <<>> THEN <<>>
                   ELSE InsertProperty(decl[Len(decl)],
                                       JSONparse(SubSeq(decl, 1, Len(decl) - 1)))

ObjectKeys(obj) == [i \in 1..Len(obj) |-> obj[i].key]

Get(obj, key) == IF \E i \in 1..Len(obj) : obj[i].key = key
                 THEN obj[CHOOSE i \in 1..Len(obj) : obj[i].key = key].name
                 ELSE Undefined

\* Order of two digit strings as strings (what sort() without a comparator uses).
RECURSIVE StringCompare(_, _)
StringCompare(a, b) ==
    IF a = <<>> /\ b = <<>> THEN 0
    ELSE IF a = <<>> THEN -1
    ELSE IF b = <<>> THEN 1
    ELSE IF Head(a) # Head(b) THEN Head(a) - Head(b)
    ELSE StringCompare(Tail(a), Tail(b))

\* Faulty variant of compareKeys: the keys compared as strings, as sort()
\* without a comparator does.
compareKeys_asStrings(a, b) == StringCompare(a, b)

\* (a, b) => a - b : both keys are coerced to numbers
compareKeys(a, b) == ToNumber(a) - ToNumber(b)

\* Array.prototype.sort with compareKeys (stable)
RECURSIVE InsertSorted(_, _)
InsertSorted(k, sorted) ==
    IF sorted = <<>> THEN <<k>>
    ELSE IF compareKeys(k, Head(sorted)) < 0 THEN <<k>> \o sorted
    ELSE <<Head(sorted)>> \o InsertSorted(k, Tail(sorted))

RECURSIVE sortKeys(_)
sortKeys(keys) == IF keys = <<>> THEN <<>>
                  ELSE InsertSorted(keys[Len(keys)],
                                    sortKeys(SubSeq(keys, 1, Len(keys) - 1)))

\* Object.keys(classIndices).sort((a, b) => a - b).map((key) => classIndices[key])
buildLabels(classIndices) ==
    LET sorted == sortKeys(ObjectKeys(classIndices))
    IN  [i \in 1..Len(sorted) |-> Get(classIndices, sorted[i])]

(***************************************************************************)
(* initialize(): the weight buffer (part_000 only)                         *)
(***************************************************************************)
\* Offsets at which Buffer.concat may place a Buffer in its ArrayBuffer; at a
\* non-zero offset the ArrayBuffer is the allocation pool (bytes 255 here).
PoolOffsets == {0, 8}

\* Buffer.concat(list): a Buffer view of byteLength bytes at byteOffset of its
\* ArrayBuffer, which is the shared pool when the offset is not 0.
BufferConcat(list, off) ==
    LET bytes == Flatten(list)
    IN  [buffer |-> [i \in 1..off |-> 255] \o bytes
                    \o [i \in 1..(IF off = 0 THEN 0 ELSE 4) |-> 255],
         byteOffset |-> off,
         byteLength |-> Len(bytes)]

\* ArrayBuffer.prototype.slice(begin, end)
ArrayBufferSlice(buffer, begin, end) == SubSeq(buffer, begin + 1, end)

\* shardPaths.map((shardPath) => fs.readFileSync(path.join(MODEL_DIR, shardPath)))
readShards(shardPaths) == [i \in 1..Len(shardPaths) |-> ShardFiles[shardPaths[i]]]

\* weightData of modelIOHandler.load()
combineWeights(shardPaths, off) ==
    LET combinedWeights == BufferConcat(readShards(shardPaths), off)
    IN  ArrayBufferSlice(combinedWeights.buffer, combinedWeights.byteOffset,
                         combinedWeights.byteOffset + combinedWeights.byteLength)

\* const shardPaths = modelJson.weightsManifest[0].paths
shardPathsOf(weightsManifest) == weightsManifest[1].paths

NoWeights == <<>>

\* part_000, lines 35-79: everything between the two awaits of initialize().
\* The result records what was assigned before the first throw, if any.
loadFiles(d, labels0, solutions0, off) ==
    IF d.classFile.state # "ok"
    THEN [error |-> "class_indices.json", labels |-> labels0,
          solutions |-> solutions0, weightData |-> NoWeights]
    ELSE LET labels1 == buildLabels(JSONparse(d.classFile.content)) IN
    IF d.infoFile.state = "malformed"
    THEN [error |-> "diseaseInfo.json", labels |-> labels1,
          solutions |-> solutions0, weightData |-> NoWeights]
    ELSE LET solutions1 == IF d.infoFile.state = "ok" THEN d.infoFile.content
                           ELSE solutions0 IN
    IF d.modelJson.state # "ok" \/ Len(d.modelJson.content) = 0
    THEN [error |-> "model.json", labels |-> labels1,
          solutions |-> solutions1, weightData |-> NoWeights]
    ELSE LET shardPaths == shardPathsOf(d.modelJson.content) IN
    IF \E i \in 1..Len(shardPaths) : shardPaths[i] \notin DOMAIN ShardFiles
    THEN [error |-> "shard", labels |-> labels1,
          solutions |-> solutions1, weightData |-> NoWeights]
    ELSE [error |-> "none", labels |-> labels1, solutions |-> solutions1,
          weightData |-> combineWeights(shardPaths, off)]

\* server.js, lines 35-49: what follows the await of initialize().
loadFilesServer(d, labels0, solutions0) ==
    IF d.classFile.state # "ok"
    THEN [error |-> "class_indices.json", labels |-> labels0, solutions |-> solutions0]
    ELSE LET labels1 == buildLabels(JSONparse(d.classFile.content)) IN
    IF d.infoFile.state = "malformed"
    THEN [error |-> "diseaseInfo.json", labels |-> labels1, solutions |-> solutions0]
    ELSE [error |-> "none", labels |-> labels1,
          solutions |-> IF d.infoFile.state = "ok" THEN d.infoFile.content
                        ELSE solutions0]

(***************************************************************************)
(* State                                                                   *)
(***************************************************************************)
Requests == 1..MaxRequests

NoResponse == [code |-> 0, json |-> FALSE, status |-> Undefined, message |-> Undefined,
               label |-> Undefined, confidence |-> -1,
               solution |-> Undefined, pesticide |-> Undefined]

NewRequest == [pc |-> "new", hasFile |-> FALSE, onDisk |-> FALSE, data |-> <<>>,
               maxIdx |-> -1, usedModel |-> 0, responses |-> 0, res |-> NoResponse]

Init == /\ variant \in {"part_000", "server"}
        /\ disk \in Disks
        /\ listening = FALSE
        /\ initPc = "idle"
        /\ initRuns = 0
        /\ initError = "none"
        /\ model = 0
        /\ modelsBuilt = 0
        /\ labels = <<>>
        /\ solutions = EmptyObject
        /\ weightData = NoWeights
        /\ req = [r \in Requests |-> NewRequest]

\* The registry state of the spec, read off the code's state.
RegistryState == IF initRuns = 0 THEN "Uninitialized"
                 ELSE IF initPc # "idle" THEN "Loading"
                 ELSE IF initError = "none" THEN "Ready"
                 ELSE "Failed"

(***************************************************************************)
(* initialize()                                                            *)
(***************************************************************************)
\* The call, up to its first await: tf.setBackend in part_000,
\* tf.loadLayersModel in server.js.
callInitialize ==
    /\ initRuns' = initRuns + 1
    /\ initError' = "none"
    /\ initPc' = IF variant = "part_000" THEN "setBackend" ELSE "loadLayersModel"
    /\ UNCHANGED <<variant, disk, model, modelsBuilt, labels, solutions, weightData, req>>

\* app.listen(PORT, HOST, () => { ...; initialize(); })
Listen == /\ ~listening
          /\ listening' = TRUE
          /\ callInitialize

\* part_000: tf.setBackend settles; labels, remedies and weights are read and
\* tf.loadLayersModel(modelIOHandler) is awaited, or the catch block runs.
InitLoadFiles ==
    /\ variant = "part_000"
    /\ initPc = "setBackend"
    /\ \E backendOk \in BOOLEAN, off \in PoolOffsets :
         IF ~backendOk
         THEN /\ initError' = "setBackend"
              /\ initPc' = "idle"
              /\ UNCHANGED <<labels, solutions, weightData>>
         ELSE LET got == loadFiles(disk, labels, solutions, off) IN
              /\ labels' = got.labels
              /\ solutions' = got.solutions
              /\ initError' = got.error
              /\ IF got.error = "none"
                 THEN initPc' = "loadLayersModel" /\ weightData' = got.weightData
                 ELSE initPc' = "idle" /\ UNCHANGED weightData
    /\ UNCHANGED <<variant, disk, listening, initRuns, model, modelsBuilt, req>>

\* part_000: model = await tf.loadLayersModel(modelIOHandler)
InitModelBuilt ==
    /\ variant = "part_000"
    /\ initPc = "loadLayersModel"
    /\ initPc' = "idle"
    /\ \E built \in BOOLEAN :
         IF built
         THEN /\ modelsBuilt' = modelsBuilt + 1
              /\ model' = modelsBuilt + 1
              /\ UNCHANGED initError
         ELSE /\ initError' = "loadLayersModel"
              /\ UNCHANGED <<model, modelsBuilt>>
    /\ UNCHANGED <<variant, disk, listening, initRuns, labels, solutions, weightData, req>>

\* server.js: model = await tf.loadLayersModel(`file://...`), then labels and
\* remedies in the same turn.
InitServerLoaded ==
    /\ variant = "server"
    /\ initPc = "loadLayersModel"
    /\ initPc' = "idle"
    /\ \E built \in BOOLEAN :
         IF built
         THEN LET got == loadFilesServer(disk, labels, solutions) IN
              /\ modelsBuilt' = modelsBuilt + 1
              /\ model' = modelsBuilt + 1
              /\ labels' = got.labels
              /\ solutions' = got.solutions
              /\ initError' = got.error
         ELSE /\ initError' = "loadLayersModel"
              /\ UNCHANGED <<model, modelsBuilt, labels, solutions>>
    /\ UNCHANGED <<variant, disk, listening, initRuns, weightData, req>>

(***************************************************************************)
(* POST /predict                                                           *)
(***************************************************************************)
RECURSIVE MathMax(_)
MathMax(data) == IF Len(data) = 1 THEN data[1]
                 ELSE LET m == MathMax(Tail(data))
                      IN  IF data[1] >= m THEN data[1] ELSE m

\* Array.prototype.indexOf: the first index holding v (0-based), or -1
indexOf(data, v) == IF \E i \in 1..Len(data) : data[i] = v
                    THEN (CHOOSE i \in 1..Len(data) :
                              data[i] = v /\ \A j \in 1..(i - 1) : data[j] # v) - 1
                    ELSE -1

\* Faulty variant of argmax: the last index holding the maximum (lastIndexOf).
argmax_lastIndexOf(data) ==
    (CHOOSE i \in 1..Len(data) :
        data[i] = MathMax(data) /\ \A j \in (i + 1)..Len(data) : data[j] # data[i]) - 1

\* const maxIdx = data.indexOf(Math.max(...data))
argmax(data) == indexOf(data, MathMax(data))

\* (data[maxIdx] * 100).toFixed(2), in hundredths of a percent; data is in 1e-5
toFixed2(v) == (v + 5) \div 10

confidenceOf(data, maxIdx) == toFixed2(data[maxIdx + 1])

\* Faulty variant of resolveLabel: labels[maxIdx] with no fallback.
resolveLabel_noFallback(lbls, maxIdx) ==
    IF maxIdx + 1 \in DOMAIN lbls THEN lbls[maxIdx + 1] ELSE Undefined

\* labels[maxIdx] || "Unknown"
resolveLabel(lbls, maxIdx) ==
    LET entry == IF maxIdx + 1 \in DOMAIN lbls THEN lbls[maxIdx + 1] ELSE Undefined
    IN  IF Falsy(entry) THEN "Unknown" ELSE entry

\* the object literal to the right of solutions[label] ||
defaultInfo(v) ==
    IF v = "part_000"
    THEN [solution |-> "Use proper fertilizers and care.",
          pesticide |-> "Apply recommended pesticide."]
    ELSE [solution |-> "General care needed.",
          pesticide |-> "Use appropriate pesticide."]

\* const info = solutions[label] || { ... }
lookupInfo(sols, label, v) ==
    IF label \in DOMAIN sols THEN sols[label] ELSE defaultInfo(v)

\* res.json({ status: "success", label, confidence, solution, pesticide })
successResponse(label, confidence, info) ==
    [code |-> 200, json |-> TRUE, status |-> "success", message |-> Undefined,
     label |-> label, confidence |-> confidence,
     solution |-> info.solution, pesticide |-> info.pesticide]

\* part_000: res.status(code).json({ status: "error", message })
errorJson(code, message) ==
    [NoResponse EXCEPT !.code = code, !.json = TRUE, !.status = "error",
                       !.message = message]

\* server.js: res.status(code).send(text)
errorText(code, text) ==
    [NoResponse EXCEPT !.code = code, !.json = FALSE, !.message = text]

\* err.message || "Prediction failed."
messageOf(errMessage) == IF Falsy(errMessage) THEN "Prediction failed." ELSE errMessage

\* Messages of the errors loadImage, model.predict and prediction.data() throw.
ErrorMessages == {"Unsupported image type", ""}

\* the failure response of the catch block
catchResponse(v, errMessage) ==
    IF v = "part_000" THEN errorJson(500, messageOf(errMessage))
    ELSE errorText(500, "Failed to process image.")

\* Faulty variant of finallyCleanup: the finally block does not unlink.
finallyCleanup_noUnlink(onDisk) == onDisk

\* finally { if (fs.existsSync(path)) fs.unlinkSync(path) }: is the upload
\* still on disk afterwards?
finallyCleanup(onDisk) == IF onDisk THEN FALSE ELSE onDisk

\* The request ends: one response is sent and the finally block has run.
respond(q, response) ==
    [q EXCEPT !.pc = "done", !.res = response, !.responses = q.responses + 1,
              !.onDisk = finallyCleanup(q.onDisk)]

\* The handler up to its first await.  multer has stored the upload, if any.
Receive(r) ==
    /\ listening
    /\ req[r].pc = "new"
    /\ \E hasFile \in BOOLEAN :
         LET q == [req[r] EXCEPT !.hasFile = hasFile, !.onDisk = hasFile] IN
         IF ~hasFile
         THEN req' = [req EXCEPT ![r] =
                        [q EXCEPT !.pc = "done", !.responses = q.responses + 1,
                                  !.res = IF variant = "part_000"
                                          THEN errorJson(400, "No file uploaded.")
                                          ELSE errorText(400, "No image uploaded.")]]
         ELSE IF variant = "part_000" /\ model = 0
         THEN req' = [req EXCEPT ![r] =
                        respond(q, catchResponse(variant, "Model not loaded yet."))]
         ELSE req' = [req EXCEPT ![r] = [q EXCEPT !.pc = "decode"]]
    /\ UNCHANGED <<variant, disk, listening, initPc, initRuns, initError,
                   model, modelsBuilt, labels, solutions, weightData>>

\* model.predict(input) on the current global model, then await prediction.data()
runPredict(q) ==
    IF model = 0
    THEN {respond(q, catchResponse(variant, "Cannot read properties of undefined"))}
    ELSE {respond(q, catchResponse(variant, m)) : m \in ErrorMessages}
         \cup {[q EXCEPT !.pc = "data", !.data = out, !.usedModel = model] :
                  out \in Outputs}

\* part_000: loadImage settles; on success the canvas is drawn, the tensor is
\* built and the model is run.
\* server.js: Jimp.read settles; on success the image is resized and
\* getBufferAsync is awaited.
Decoded(r) ==
    /\ req[r].pc = "decode"
    /\ \/ \E m \in ErrorMessages :
            req' = [req EXCEPT ![r] = respond(req[r], catchResponse(variant, m))]
       \/ /\ variant = "part_000"
          /\ \E q \in runPredict(req[r]) : req' = [req EXCEPT ![r] = q]
       \/ /\ variant = "server"
          /\ req' = [req EXCEPT ![r].pc = "buffer"]
    /\ UNCHANGED <<variant, disk, listening, initPc, initRuns, initError,
                   model, modelsBuilt, labels, solutions, weightData>>

\* server.js: getBufferAsync settles; the tensor is built and the model is run.
Buffered(r) ==
    /\ variant = "server"
    /\ req[r].pc = "buffer"
    /\ \/ \E m \in ErrorMessages :
            req' = [req EXCEPT ![r] = respond(req[r], catchResponse(variant, m))]
       \/ \E q \in runPredict(req[r]) : req' = [req EXCEPT ![r] = q]
    /\ UNCHANGED <<variant, disk, listening, initPc, initRuns, initError,
                   model, modelsBuilt, labels, solutions, weightData>>

\* prediction.data() resolves: label, confidence and remedy are worked out
\* and the success response is sent.
Predicted(r) ==
    /\ req[r].pc = "data"
    /\ LET maxIdx == argmax(req[r].data)
           confidence == confidenceOf(req[r].data, maxIdx)
           label == resolveLabel(labels, maxIdx)
           info == lookupInfo(solutions, label, variant)
       IN  req' = [req EXCEPT ![r] =
                     respond([req[r] EXCEPT !.maxIdx = maxIdx],
                             successResponse(label, confidence, info))]
    /\ UNCHANGED <<variant, disk, listening, initPc, initRuns, initError,
                   model, modelsBuilt, labels, solutions, weightData>>

(***************************************************************************)
(* Specifications                                                          *)
(***************************************************************************)
Next == \/ Listen
        \/ InitLoadFiles
        \/ InitModelBuilt
        \/ InitServerLoaded
        \/ \E r \in Requests : Receive(r)
        \/ \E r \in Requests : Decoded(r)
        \/ \E r \in Requests : Buffered(r)
        \/ \E r \in Requests : Predicted(r)

Spec == Init /\ [][Next]_vars

\* initialize() called once more, by hand, on a registry that is Ready.
InitializeAgain ==
    /\ RegistryState = "Ready"
    /\ initRuns < MaxInitRuns
    /\ UNCHANGED listening
    /\ callInitialize

SpecRecall == Init /\ [][Next \/ InitializeAgain]_vars

(***************************************************************************)
(* Properties                                                              *)
(***************************************************************************)
Done(r) == req[r].pc = "done"
Succeeded(r) == Done(r) /\ req[r].res.status = "success"

\* The label file has been read and `labels` assigned by initialize().
LabelsLoaded ==
    /\ initRuns > 0
    /\ IF variant = "part_000"
       THEN \/ initPc = "loadLayersModel"
            \/ initPc = "idle" /\ initError \notin {"setBackend", "class_indices.json"}
       ELSE initPc = "idle" /\ initError \notin {"loadLayersModel", "class_indices.json"}

\* C1: once the handler of a request that carried an upload has finished,
\* whatever its outcome, the uploaded file no longer exists.
C1_UploadRemoved == \A r \in Requests : Done(r) /\ req[r].hasFile => ~req[r].onDisk

\* Two finished requests with uploads, one answered with success and one with 500.
C1_Witness == \E r, t \in Requests :
                 /\ Succeeded(r) /\ req[r].hasFile
                 /\ Done(t) /\ req[t].hasFile /\ req[t].res.code = 500

\* Model, label list and remedy catalog are all as a complete initialize() leaves them.
FullyLoaded ==
    /\ model # 0
    /\ disk.classFile.state = "ok"
    /\ Len(labels) = Len(disk.classFile.content)
    /\ \A i \in DOMAIN disk.classFile.content :
          labels[ToNumber(disk.classFile.content[i].key) + 1]
             = disk.classFile.content[i].name
    /\ disk.infoFile.state # "malformed"
    /\ disk.infoFile.state = "ok" => solutions = disk.infoFile.content

\* C2: a request that reached model.predict did so with the model, the label
\* list and the remedy catalog fully loaded.
C2_PredictOnlyWhenFullyLoaded ==
    \A r \in Requests : req[r].usedModel # 0 => FullyLoaded

\* C3: after a failed initialize() no request is answered with a prediction.
C3_FailedIsTerminal ==
    RegistryState = "Failed" => \A r \in Requests : ~Succeeded(r)

\* C4: position i of the label list holds the name the class-index file stores
\* under key i, whatever order the file declares its keys in.
C4_LabelsByNumericKey ==
    LabelsLoaded /\ disk.classFile.state = "ok" =>
        /\ Len(labels) = Len(disk.classFile.content)
        /\ \A i \in DOMAIN disk.classFile.content :
              labels[ToNumber(disk.classFile.content[i].key) + 1]
                 = disk.classFile.content[i].name

\* Labels loaded from a file that declares more than ten keys in descending order.
C4_Witness ==
    /\ LabelsLoaded
    /\ disk.classFile.state = "ok"
    /\ Len(disk.classFile.content) > 10
    /\ ToNumber(disk.classFile.content[1].key) = Len(disk.classFile.content) - 1
    /\ Len(labels) > 10

\* C5: the class index is the first index holding the maximum of the output
\* vector, and the confidence is that value times 100 to two decimals, not
\* normalised; <<0.2, 0.5, 0.5, 0.1>> gives index 1 and 50.00.
C5_ArgmaxFirstAndConfidence ==
    \A r \in Requests : Succeeded(r) =>
        LET data == req[r].data
            m == req[r].maxIdx + 1
        IN  /\ m \in DOMAIN data
            /\ \A j \in DOMAIN data : data[j] <= data[m]
            /\ \A j \in 1..(m - 1) : data[j] < data[m]
            /\ 10 * req[r].res.confidence <= data[m] + 5
            /\ data[m] + 5 < 10 * req[r].res.confidence + 10
            /\ data = <<20000, 50000, 50000, 10000>> =>
                  req[r].maxIdx = 1 /\ req[r].res.confidence = 5000

\* A prediction made from the output vector <<0.2, 0.5, 0.5, 0.1>>, whose maximum
\* occurs twice.
C5_Witness == \E r \in Requests :
                 Succeeded(r) /\ req[r].data = <<20000, 50000, 50000, 10000>>

\* C6: an index outside the label list, or one without a label, gives a success
\* response with label "Unknown"; any other index gives the label at that index.
C6_UnknownFallback ==
    \A r \in Requests : (Done(r) /\ req[r].maxIdx >= 0) =>
        LET i == req[r].maxIdx + 1 IN
        /\ req[r].res.status = "success"
        /\ req[r].res.code = 200
        /\ IF i \notin DOMAIN labels \/ labels[i] \in {Null, Undefined, ""}
           THEN req[r].res.label = "Unknown"
           ELSE req[r].res.label = labels[i]

\* With a non-empty label list loaded: one prediction beyond the list and one
\* inside it, or one at an index whose label is null.
C6_Witness ==
    /\ Len(labels) > 0
    /\ \E r, t \in Requests :
          /\ Succeeded(r) /\ req[r].res.label = "Unknown"
          /\ \/ req[r].maxIdx >= Len(labels)
             \/ req[r].maxIdx < Len(labels) /\ labels[req[r].maxIdx + 1] = Null
          /\ Succeeded(t) /\ req[t].maxIdx < Len(labels)
          /\ req[t].res.label = labels[req[t].maxIdx + 1]

\* C7: a success response carries the catalog entry of its label, or else the
\* default texts "Use proper fertilizers and care." / "Apply recommended
\* pesticide."; neither text is ever missing, null or empty.
C7_RemedyOrFixedDefault ==
    \A r \in Requests : Succeeded(r) =>
        /\ IF req[r].res.label \in DOMAIN solutions
           THEN /\ req[r].res.solution = solutions[req[r].res.label].solution
                /\ req[r].res.pesticide = solutions[req[r].res.label].pesticide
           ELSE /\ req[r].res.solution = "Use proper fertilizers and care."
                /\ req[r].res.pesticide = "Apply recommended pesticide."
        /\ ~Falsy(req[r].res.solution)
        /\ ~Falsy(req[r].res.pesticide)

\* C8: a finished request has exactly one response: 400 with a JSON error body
\* when no file came, 500 with a JSON error body for a failure, else a JSON
\* success body with label, confidence, solution and pesticide.
C8_OneStructuredResponse ==
    \A r \in Requests : Done(r) =>
        LET res == req[r].res IN
        /\ req[r].responses = 1
        /\ res.json
        /\ IF ~req[r].hasFile
           THEN res.code = 400 /\ res.status = "error" /\ res.message # Undefined
           ELSE \/ res.code = 500 /\ res.status = "error" /\ res.message # Undefined
                \/ /\ res.code = 200 /\ res.status = "success"
                   /\ res.label # Undefined /\ res.confidence >= 0
                   /\ res.solution # Undefined /\ res.pesticide # Undefined

\* Contents of every shard file the manifest references, in manifest order.
AllShardPaths(weightsManifest) ==
    Flatten([g \in 1..Len(weightsManifest) |-> weightsManifest[g].paths])

\* C9: the weight buffer handed to model construction is the concatenation of
\* all shard files the manifest references, in order, and as long as their sum.
C9_AllShardsConcatenated ==
    (variant = "part_000" /\ initRuns > 0 /\ (initPc = "loadLayersModel" \/ model # 0)) =>
        LET paths == AllShardPaths(disk.modelJson.content) IN
        /\ \A i \in DOMAIN paths : paths[i] \in DOMAIN ShardFiles
        /\ weightData = Flatten([i \in DOMAIN paths |-> ShardFiles[paths[i]]])
        /\ Len(weightData) = SeqSum([i \in DOMAIN paths |-> Len(ShardFiles[paths[i]])])

\* C10: initialize() on a Ready registry changes nothing and stays Ready; the
\* registry only goes Uninitialized -> Loading -> Ready or Failed.
C10_IdempotentWhenReady ==
    [][ /\ RegistryState = "Ready" =>
            /\ RegistryState' = "Ready"
            /\ model' = model /\ labels' = labels /\ solutions' = solutions
        /\ RegistryState' # RegistryState =>
            \/ RegistryState = "Uninitialized" /\ RegistryState' = "Loading"
            \/ RegistryState = "Loading" /\ RegistryState' \in {"Ready", "Failed"}
      ]_vars

====
